---- MODULE Spec2Model ----
(***************************************************************************)
(* Model of the gorm -> logrus adapter of logger.go.                       *)
(*                                                                         *)
(* The adapter is the Go struct Logger {log, cfg}.  Adapter values live in *)
(* `heap` (one entry per allocated *Logger, in allocation order); every    *)
(* method is an action that reads its receiver from the heap and records   *)
(* what it did in `last`: the calls it made on the logrus sink, how often  *)
(* it invoked the lazy callback, and the adapter it returned.              *)
(*                                                                         *)
(* Durations are Go time.Duration values: integer nanoseconds.  The inputs *)
(* are whole milliseconds below one second.                                *)
(***************************************************************************)
EXTENDS Integers, Sequences, FiniteSets, TLC

VARIABLES heap, born, last, traceCalls, fcCalls

vars == <<heap, born, last, traceCalls, fcCalls>>

----------------------------------------------------------------------------
(* Bounds of the model. *)

MaxAdapters == 2
MaxDuration == 2
MaxRows == 0
MaxCalls == 2
MaxOpts == 2

(* The divisor 1e6 of logger.go: nanoseconds per millisecond. *)
NsPerMs == 1000000

----------------------------------------------------------------------------
(* Values handed in by the host library. *)

(* gorm's logger.LogLevel: Silent = 1, Error = 2, Warn = 3, Info = 4; the   *)
(* zero value 0 is what a Config that was never set holds.  LogMode is      *)
(* called with Silent and Warn, WithConfig with Info.                       *)
LogLevels == { 1, 3 }

Durations == { k * NsPerMs : k \in 0 .. MaxDuration }

Rows == (-2) .. MaxRows

Statements == { "SELECT 1" }

Contexts == { "ctx" }

(* Errors are unwrap chains, outermost first; the empty chain is nil. *)
Nil == << >>
ErrRecordNotFound == "record not found"
Errs == { Nil, <<ErrRecordNotFound>>, <<"find user", ErrRecordNotFound>>,
          <<"syntax error">> }

(* *logrus.Logger handles: nil, the process-wide standard logger, and one   *)
(* built by the caller.                                                     *)
NilLogger == "nil"
StandardLogger == "logrus.std"
LoggerHandles == { NilLogger, "custom" }

(* Arguments of a printf-style call, tagged with their Go type. *)
Int64(n) == [kind |-> "int64", v |-> n]
String(s) == [kind |-> "string", v |-> s]
Float64(num, den) == [kind |-> "float64", num |-> num, den |-> den]

(* Format strings are kept split into literal pieces and verbs. *)
Formats == { <<"connected">>, <<"rows=", "%v">> }
Data == { << >>, <<Int64(7)>> }

----------------------------------------------------------------------------
(* errors.Is(err, target): target is somewhere on err's unwrap chain. *)
RECURSIVE ErrorsIs(_, _)
ErrorsIs(err, target) ==
    IF err = Nil THEN FALSE
    ELSE IF Head(err) = target THEN TRUE
    ELSE ErrorsIs(Tail(err), target)

(* Decimal rendering of an integer (%v of an int64). *)
Digit(d) == SubSeq("0123456789", d + 1, d + 1)

RECURSIVE FormatNat(_)
FormatNat(n) == IF n < 10 THEN Digit(n) ELSE FormatNat(n \div 10) \o Digit(n % 10)

FormatInt(n) == IF n < 0 THEN "-" \o FormatNat(-n) ELSE FormatNat(n)

Pad3(n) ==
    IF n < 10 THEN "00" \o FormatNat(n)
    ELSE IF n < 100 THEN "0" \o FormatNat(n)
    ELSE FormatNat(n)

(* %.3f of the non-negative quotient num/den: three decimals, rounded. *)
FormatFloat3(num, den) ==
    LET whole == num \div den
        scaled == (num % den) * 1000
        frac == scaled \div den
        up == IF 2 * (scaled % den) >= den THEN 1 ELSE 0
        thousandths == whole * 1000 + frac + up
    IN  FormatNat(thousandths \div 1000) \o "." \o Pad3(thousandths % 1000)

(* Duration.String() (%v of a time.Duration) for 0 and for whole            *)
(* milliseconds below one second.                                           *)
DurationString(d) ==
    CASE d = 0 -> "0s"
      [] d > 0 /\ d < 1000 * NsPerMs /\ d % NsPerMs = 0 ->
             FormatNat(d \div NsPerMs) \o "ms"

FormatArg(verb, arg) ==
    CASE verb = "%.3f" /\ arg.kind = "float64" -> FormatFloat3(arg.num, arg.den)
      [] verb = "%v" /\ arg.kind = "int64" -> FormatInt(arg.v)
      [] verb = "%v" /\ arg.kind = "string" -> arg.v
      [] verb = "%s" /\ arg.kind = "string" -> arg.v

IsVerb(piece) == piece \in { "%.3f", "%v", "%s" }

RECURSIVE Extra(_)
Extra(args) ==
    IF args = << >> THEN ""
    ELSE "%!(EXTRA " \o Head(args).kind \o "=" \o FormatArg("%v", Head(args)) \o ")"
         \o Extra(Tail(args))

(* fmt.Sprintf(format, args...) *)
RECURSIVE Sprintf(_, _)
Sprintf(format, args) ==
    IF format = << >> THEN Extra(args)
    ELSE IF IsVerb(Head(format))
         THEN IF args = << >>
              THEN "%!" \o SubSeq(Head(format), Len(Head(format)), Len(Head(format)))
                   \o "(MISSING)" \o Sprintf(Tail(format), args)
              ELSE FormatArg(Head(format), Head(args)) \o Sprintf(Tail(format), Tail(args))
         ELSE Head(format) \o Sprintf(Tail(format), args)

----------------------------------------------------------------------------
(* The logrus sink: one entry per call of Debugf/Infof/Warnf/Errorf on     *)
(* log.WithContext(ctx).WithFields(fields), holding the call's arguments.   *)
Entry(log, ctx, fields, level, format, args) ==
    [logger |-> log, ctx |-> ctx, fields |-> fields, level |-> level,
     format |-> format, args |-> args]

(* The message the sink prints for an entry: fmt.Sprintf(format, args...). *)
Message(e) == Sprintf(e.format, e.args)

NoFields == [k \in {} |-> ""]

(* utils.FileWithLineNum(): the caller's position, opaque here. *)
FileWithLineNum == "file:line"

TraceFormat == <<"[", "%.3f", "ms] [rows:", "%v", "] ", "%s">>

----------------------------------------------------------------------------
(* Construction. *)

ZeroConfig == [LogLevel |-> 0, SlowThreshold |-> 0, IgnoreRecordNotFoundError |-> FALSE]

Configs == [LogLevel : {4}, SlowThreshold : Durations, IgnoreRecordNotFoundError : BOOLEAN]

WithLogger(log) == [kind |-> "WithLogger", log |-> log]
WithConfig(cfg) == [kind |-> "WithConfig", cfg |-> cfg]

Options == { WithLogger(h) : h \in LoggerHandles } \cup { WithConfig(c) : c \in Configs }

Apply(o, opt) ==
    IF o.kind = "WithLogger" THEN [opt EXCEPT !.log = o.log]
    ELSE [opt EXCEPT !.cfg = o.cfg]

RECURSIVE ApplyAll(_, _)
ApplyAll(opts, opt) ==
    IF opts = << >> THEN opt ELSE ApplyAll(Tail(opts), Apply(Head(opts), opt))

New(opts) ==
    LET opt == ApplyAll(opts, [log |-> NilLogger, cfg |-> ZeroConfig])
    IN  [log |-> IF opt.log = NilLogger THEN StandardLogger ELSE opt.log,
         cfg |-> opt.cfg]

OptionLists == UNION { [1 .. n -> Options] : n \in 0 .. MaxOpts }

----------------------------------------------------------------------------
(* The methods of Logger, as functions of the receiver's value. *)

(* Variant: the adapter is rebuilt from the sink handle and the level alone. *)
LogModeRebuilt(h, self, level) ==
    [heap |-> Append(h, [log |-> h[self].log,
                         cfg |-> [ZeroConfig EXCEPT !.LogLevel = level]]),
     ret |-> Len(h) + 1]

(* Variant: newLogger := l, the pointer is copied and the receiver written. *)
LogModeInPlace(h, self, level) ==
    [heap |-> [h EXCEPT ![self].cfg.LogLevel = level], ret |-> self]

(* newLogger := *l; newLogger.cfg.LogLevel = level; return &newLogger *)
LogModeAlloc(h, self, level) ==
    [heap |-> Append(h, [h[self] EXCEPT !.cfg.LogLevel = level]),
     ret |-> Len(h) + 1]

(* Variant: the call is dropped below the Info level, as gorm's own logger does. *)
InfofLevelled(l, ctx, msg, data) ==
    IF l.cfg.LogLevel >= 4 THEN << Entry(l.log, ctx, NoFields, "info", msg, data) >>
    ELSE << >>

Infof(l, ctx, msg, data) == << Entry(l.log, ctx, NoFields, "info", msg, data) >>
Warnf(l, ctx, msg, data) == << Entry(l.log, ctx, NoFields, "warning", msg, data) >>
Errorf(l, ctx, msg, data) == << Entry(l.log, ctx, NoFields, "error", msg, data) >>

(* Variant: the OR of the condition written as AND. *)
IsErrorCaseAnd(l, err) ==
    err # Nil /\ (~ErrorsIs(err, ErrRecordNotFound) /\ ~l.cfg.IgnoreRecordNotFoundError)

IsErrorCase(l, err) ==
    err # Nil /\ (~ErrorsIs(err, ErrRecordNotFound) \/ ~l.cfg.IgnoreRecordNotFoundError)

(* Variant: >= in place of >. *)
IsSlowCaseInclusive(l, elapsed) ==
    elapsed >= l.cfg.SlowThreshold /\ l.cfg.SlowThreshold # 0

IsSlowCase(l, elapsed) ==
    elapsed > l.cfg.SlowThreshold /\ l.cfg.SlowThreshold # 0

(* Variant: every negative count is taken as unknown. *)
RowsArgNegative(rows) == IF rows < 0 THEN String("-") ELSE Int64(rows)

RowsArg(rows) == IF rows = -1 THEN String("-") ELSE Int64(rows)

TraceArgs(elapsed, fc) == << Float64(elapsed, NsPerMs), RowsArg(fc.rows), String(fc.sql) >>

ErrorBranch(l, ctx, elapsed, fc, err) ==
    [fc |-> 1,
     out |-> << Entry(l.log, ctx, [file |-> FileWithLineNum, error |-> err],
                      "error", TraceFormat, TraceArgs(elapsed, fc)) >>]

(* Variant: the callback is invoked once for the statement and once for the rows. *)
SlowBranchTwice(l, ctx, elapsed, fc, err) ==
    [fc |-> 2,
     out |-> << Entry(l.log, ctx,
                      [file |-> FileWithLineNum,
                       slowLog |-> Sprintf(<<"SLOW SQL >= ", "%s">>,
                                           <<String(DurationString(l.cfg.SlowThreshold))>>)],
                      "warning", TraceFormat, TraceArgs(elapsed, fc)) >>]

SlowBranch(l, ctx, elapsed, fc, err) ==
    [fc |-> 1,
     out |-> << Entry(l.log, ctx,
                      [file |-> FileWithLineNum,
                       slowLog |-> Sprintf(<<"SLOW SQL >= ", "%s">>,
                                           <<String(DurationString(l.cfg.SlowThreshold))>>)],
                      "warning", TraceFormat, TraceArgs(elapsed, fc)) >>]

(* Variant: the else of the rows test is missing, rows = -1 logs twice. *)
DefaultBranchNoElse(l, ctx, elapsed, fc, err) ==
    [fc |-> 1,
     out |-> (IF fc.rows = -1
              THEN << Entry(l.log, ctx, [file |-> FileWithLineNum], "debug", TraceFormat,
                            << Float64(elapsed, NsPerMs), String("-"), String(fc.sql) >>) >>
              ELSE << >>)
             \o << Entry(l.log, ctx, [file |-> FileWithLineNum], "debug", TraceFormat,
                         << Float64(elapsed, NsPerMs), Int64(fc.rows), String(fc.sql) >>) >>]

(* Variant: the error, when there is one, is attached in the default branch too. *)
DefaultBranchWithError(l, ctx, elapsed, fc, err) ==
    [fc |-> 1,
     out |-> << Entry(l.log, ctx,
                      IF err = Nil THEN [file |-> FileWithLineNum]
                      ELSE [file |-> FileWithLineNum, error |-> err],
                      "debug", TraceFormat, TraceArgs(elapsed, fc)) >>]

DefaultBranch(l, ctx, elapsed, fc, err) ==
    [fc |-> 1,
     out |-> << Entry(l.log, ctx, [file |-> FileWithLineNum],
                      "debug", TraceFormat, TraceArgs(elapsed, fc)) >>]

(* Variant: nothing is traced at the Silent level, as gorm's own logger does. *)
TraceRunLevelled(l, ctx, elapsed, fc, err) ==
    IF l.cfg.LogLevel <= 1 THEN [fc |-> 0, out |-> << >>]
    ELSE IF IsErrorCase(l, err) THEN ErrorBranch(l, ctx, elapsed, fc, err)
    ELSE IF IsSlowCase(l, elapsed) THEN SlowBranch(l, ctx, elapsed, fc, err)
    ELSE DefaultBranch(l, ctx, elapsed, fc, err)

TraceRun(l, ctx, elapsed, fc, err) ==
    IF IsErrorCase(l, err) THEN ErrorBranch(l, ctx, elapsed, fc, err)
    ELSE IF IsSlowCase(l, elapsed) THEN SlowBranch(l, ctx, elapsed, fc, err)
    ELSE DefaultBranch(l, ctx, elapsed, fc, err)

----------------------------------------------------------------------------
(* The state machine: calls made by the host library, one at a time. *)

NoCall == [op |-> "none", self |-> 0, args |-> << >>, ret |-> 0, fc |-> 0, out |-> << >>]

Init ==
    /\ \E opts \in OptionLists : heap = << New(opts) >>
    /\ born = << heap[1].cfg >>
    /\ last = NoCall
    /\ traceCalls = 0
    /\ fcCalls = 0

LogMode(self, level) ==
    /\ Len(heap) < MaxAdapters
    /\ \E r \in { LogModeAlloc(heap, self, level) } :
           /\ heap' = r.heap
           /\ born' = IF Len(r.heap) > Len(heap)
                      THEN Append(born, r.heap[Len(r.heap)].cfg) ELSE born
           /\ last' = [op |-> "LogMode", self |-> self, args |-> [level |-> level],
                       ret |-> r.ret, fc |-> 0, out |-> << >>]
    /\ UNCHANGED <<traceCalls, fcCalls>>

Info(self, ctx, msg, data) ==
    /\ last' = [op |-> "Info", self |-> self,
                args |-> [ctx |-> ctx, msg |-> msg, data |-> data], ret |-> 0,
                fc |-> 0, out |-> Infof(heap[self], ctx, msg, data)]
    /\ UNCHANGED <<heap, born, traceCalls, fcCalls>>

Warn(self, ctx, msg, data) ==
    /\ last' = [op |-> "Warn", self |-> self,
                args |-> [ctx |-> ctx, msg |-> msg, data |-> data], ret |-> 0,
                fc |-> 0, out |-> Warnf(heap[self], ctx, msg, data)]
    /\ UNCHANGED <<heap, born, traceCalls, fcCalls>>

Error(self, ctx, msg, data) ==
    /\ last' = [op |-> "Error", self |-> self,
                args |-> [ctx |-> ctx, msg |-> msg, data |-> data], ret |-> 0,
                fc |-> 0, out |-> Errorf(heap[self], ctx, msg, data)]
    /\ UNCHANGED <<heap, born, traceCalls, fcCalls>>

Trace(self, ctx, elapsed, fc, err) ==
    /\ traceCalls < MaxCalls
    /\ \E r \in { TraceRun(heap[self], ctx, elapsed, fc, err) } :
           /\ last' = [op |-> "Trace", self |-> self,
                       args |-> [ctx |-> ctx, elapsed |-> elapsed, fc |-> fc, err |-> err],
                       ret |-> 0, fc |-> r.fc, out |-> r.out]
           /\ fcCalls' = fcCalls + r.fc
    /\ traceCalls' = traceCalls + 1
    /\ UNCHANGED <<heap, born>>

Next ==
    \/ \E self \in DOMAIN heap, level \in LogLevels : LogMode(self, level)
    \/ \E self \in DOMAIN heap, ctx \in Contexts, msg \in Formats, data \in Data :
           Info(self, ctx, msg, data)
    \/ \E self \in DOMAIN heap, ctx \in Contexts, msg \in Formats, data \in Data :
           Warn(self, ctx, msg, data)
    \/ \E self \in DOMAIN heap, ctx \in Contexts, msg \in Formats, data \in Data :
           Error(self, ctx, msg, data)
    \/ \E self \in DOMAIN heap, ctx \in Contexts, elapsed \in Durations,
          sql \in Statements, rows \in Rows, err \in Errs :
           Trace(self, ctx, elapsed, [sql |-> sql, rows |-> rows], err)

Spec == Init /\ [][Next]_vars

TypeOK ==
    /\ Len(heap) \in 1 .. MaxAdapters
    /\ Len(born) = Len(heap)
    /\ traceCalls \in 0 .. MaxCalls

----------------------------------------------------------------------------
(* Vocabulary of the properties. *)

(* The receiver of the last call. *)
Receiver == heap[last.self]

Traced == last.op = "Trace"

(* Errors that are, or wrap, the record-not-found sentinel. *)
NotFoundErrs == { e \in Errs : \E i \in DOMAIN e : e[i] = ErrRecordNotFound }

(* The conditions of section 4.1, stated on the arguments of the last Trace. *)
ErrorExpected ==
    /\ last.args.err # Nil
    /\ (last.args.err \notin NotFoundErrs \/ ~Receiver.cfg.IgnoreRecordNotFoundError)

SlowExpected ==
    /\ ~ErrorExpected
    /\ Receiver.cfg.SlowThreshold # 0
    /\ last.args.elapsed > Receiver.cfg.SlowThreshold

EmittedAt(level) == \E i \in DOMAIN last.out : last.out[i].level = level

Contains(s, t) ==
    \E i \in 1 .. (Len(s) - Len(t) + 1) : SubSeq(s, i, i + Len(t) - 1) = t

----------------------------------------------------------------------------
(* C1: a Trace call emits at error severity if and only if the error is    *)
(* non-nil and (it is not record-not-found or the ignore flag is false),    *)
(* whatever the elapsed time and the slow threshold.                        *)
C1_ErrorBucketIff == Traced => (EmittedAt("error") <=> ErrorExpected)

C1_Witness ==
    /\ Traced
    /\ last.args.err = <<"find user", ErrRecordNotFound>>
    /\ Receiver.cfg.IgnoreRecordNotFoundError
    /\ Receiver.cfg.SlowThreshold # 0
    /\ last.args.elapsed > Receiver.cfg.SlowThreshold
    /\ ~EmittedAt("error")

(* C2: a Trace call emits at warning severity if and only if the error      *)
(* bucket did not fire, the slow threshold is nonzero and the elapsed time  *)
(* exceeds it; threshold zero disables it, elapsed = threshold is normal.   *)
C2_SlowBucketIff == Traced => (EmittedAt("warning") <=> SlowExpected)

C2_Witness ==
    /\ Traced
    /\ last.args.err = Nil
    /\ Receiver.cfg.SlowThreshold # 0
    /\ last.args.elapsed = Receiver.cfg.SlowThreshold
    /\ EmittedAt("debug")

(* C3: every Trace call makes exactly one sink call, and it is at error,    *)
(* warning or debug severity.                                               *)
C3_OneEmission ==
    Traced => /\ Len(last.out) = 1
              /\ last.out[1].level \in { "error", "warning", "debug" }
              /\ (last.out[1].level = "debug") <=> (~ErrorExpected /\ ~SlowExpected)

C3_Witness ==
    /\ Traced
    /\ last.args.fc.rows = -1
    /\ Len(last.out) = 1
    /\ last.out[1].level = "debug"

(* C4: the lazy callback is invoked exactly once by every Trace call, in    *)
(* each bucket, so n Trace calls invoke it n times in total.                *)
C4_CallbackOnce ==
    /\ Traced => last.fc = 1
    /\ fcCalls = traceCalls

C4_Witness ==
    /\ Traced
    /\ EmittedAt("warning")
    /\ traceCalls = 2
    /\ fcCalls = 2

(* C5: LogMode(L) returns an adapter whose LogLevel is L and whose other    *)
(* fields (SlowThreshold, IgnoreRecordNotFoundError, sink handle) are the   *)
(* receiver's.                                                              *)
C5_LogModeCopy ==
    last.op = "LogMode" =>
        /\ last.ret \in DOMAIN heap
        /\ heap[last.ret].cfg.LogLevel = last.args.level
        /\ heap[last.ret].cfg.SlowThreshold = Receiver.cfg.SlowThreshold
        /\ heap[last.ret].cfg.IgnoreRecordNotFoundError
               = Receiver.cfg.IgnoreRecordNotFoundError
        /\ heap[last.ret].log = Receiver.log

C5_Witness ==
    /\ last.op = "LogMode"
    /\ Receiver.cfg.SlowThreshold # 0
    /\ Receiver.cfg.IgnoreRecordNotFoundError
    /\ Receiver.log # StandardLogger
    /\ heap[last.ret].cfg.LogLevel # Receiver.cfg.LogLevel

(* C6: no call changes the configuration of an existing adapter: each       *)
(* adapter's configuration is the one it was created with, after any        *)
(* sequence of calls on it and on the adapters derived from it.             *)
C6_ConfigFrozen ==
    /\ DOMAIN born = DOMAIN heap
    /\ \A i \in DOMAIN heap : heap[i].cfg = born[i]

C6_Witness ==
    /\ Len(heap) >= 2
    /\ heap[2].cfg.LogLevel # heap[1].cfg.LogLevel
    /\ Traced
    /\ last.self = 2
    /\ traceCalls = 2

(* C7: each Info, Warn and Error call makes exactly one sink call, at info, *)
(* warning and error severity, with the caller's format and arguments,      *)
(* whatever the adapter's LogLevel.                                         *)
C7_LevelledForward ==
    last.op \in { "Info", "Warn", "Error" } =>
        /\ Len(last.out) = 1
        /\ last.out[1].level = (CASE last.op = "Info" -> "info"
                                  [] last.op = "Warn" -> "warning"
                                  [] last.op = "Error" -> "error")
        /\ last.out[1].format = last.args.msg
        /\ last.out[1].args = last.args.data
        /\ last.out[1].ctx = last.args.ctx

C7_Witness ==
    /\ last.op = "Info"
    /\ Receiver.cfg.LogLevel = 1
    /\ Len(last.out) = 1
    /\ Message(last.out[1]) = "rows=7"

(* C8: in the message of every Trace emission a row count of -1 reads "-"   *)
(* and any other row count reads as its decimal value.                      *)
C8_RowsRendering ==
    Traced =>
        \A i \in DOMAIN last.out :
            IF last.args.fc.rows = -1
            THEN Contains(Message(last.out[i]), "[rows:-] ")
            ELSE Contains(Message(last.out[i]),
                          "[rows:" \o ToString(last.args.fc.rows) \o "] ")

C8_Witness ==
    /\ Traced
    /\ last.args.fc.rows = -2
    /\ EmittedAt("error")
    /\ Message(last.out[1]) = "[1.000ms] [rows:-2] SELECT 1"

(* C9: the fields of a Trace emission follow the bucket: error carries the  *)
(* file and the error; slow carries the file and "SLOW SQL >= <threshold>"  *)
(* and no error; normal carries the file only.                              *)
C9_FieldsByBucket ==
    Traced =>
        \A i \in DOMAIN last.out :
            LET f == last.out[i].fields
            IN  /\ f.file = FileWithLineNum
                /\ ErrorExpected =>
                       DOMAIN f = { "file", "error" } /\ f.error = last.args.err
                /\ SlowExpected =>
                       /\ DOMAIN f = { "file", "slowLog" }
                       /\ f.slowLog = "SLOW SQL >= "
                              \o ToString(Receiver.cfg.SlowThreshold \div NsPerMs) \o "ms"
                /\ (~ErrorExpected /\ ~SlowExpected) => DOMAIN f = { "file" }

C9_Witness ==
    /\ Traced
    /\ last.args.err = <<ErrRecordNotFound>>
    /\ Receiver.cfg.IgnoreRecordNotFoundError
    /\ EmittedAt("debug")
    /\ DOMAIN last.out[1].fields = { "file" }

(* C10: Trace does not read the LogLevel: on the adapter LogMode(L) returns *)
(* Trace makes the same sink calls, with the same callback use, as on the   *)
(* receiver, for every level L, Silent included.                            *)
C10_TraceIgnoresLevel ==
    Traced =>
        \A level \in 0 .. 4 :
            LET r == LogModeAlloc(heap, last.self, level)
                a == last.args
            IN  TraceRun(r.heap[r.ret], a.ctx, a.elapsed, a.fc, a.err)
                    = [fc |-> last.fc, out |-> last.out]

C10_Witness ==
    /\ Traced
    /\ last.self = 2
    /\ Receiver.cfg.LogLevel = 1
    /\ heap[1].cfg.LogLevel = 4
    /\ Len(last.out) = 1

====
